---- MODULE Spec2Model ----
(***************************************************************************)
(* A model of pyeqbal's geographic balancing (pyeqbal/geobalance.py):       *)
(*   slices                        one axis cut into boundary values        *)
(*   reduce_event_count_per_voxel  the per-voxel cap on a table of events   *)
(*   Voxels                        the grid object and its assign_voxels    *)
(*                                                                         *)
(* Numbers.  Coordinates are floating-point values in the source.  Here a  *)
(* coordinate is an integer that counts units in the last place (ulp) of   *)
(* one binade: every integer is a representable value, max - min is exact  *)
(* and a sum that is no integer is rounded to a nearest integer, ties to   *)
(* the even one (IEEE-754 round-to-nearest-even), as the float addition    *)
(* in numpy.linspace rounds it.                                            *)
(*                                                                         *)
(* Results.  A call ends by returning a value or by raising: a result is   *)
(* a record [err, val] with err = "none" for a normal return.              *)
(***************************************************************************)
EXTENDS Integers, Sequences, FiniteSets

VARIABLES
    \* ---- slices(min, max, N)
    spc,        \* "init" | "called"
    smin,       \* argument min
    smax,       \* argument max
    sN,         \* argument N
    sout,       \* the result of the call
    \* ---- reduce_event_count_per_voxel(df, NOBS_MAX)
    rpc,        \* "init" | "reduced" | "reduced_twice"
    rdf,        \* argument df: rows [id, voxel, num_obs], id the index label
    rcap,       \* argument NOBS_MAX
    rout1,      \* the result of reduce(df, NOBS_MAX)
    rout2,      \* the result of reduce(rout1, NOBS_MAX)
    \* ---- Voxels
    vpc,        \* "init" | "constructed" | "assigned"
    self,       \* the Voxels object: attribute name -> value
    df,         \* the caller's event table: rows [x, y, z]
    ret         \* the result of self.assign_voxels(df)

vars == <<spc, smin, smax, sN, sout, rpc, rdf, rcap, rout1, rout2,
          vpc, self, df, ret>>
svars == <<spc, smin, smax, sN, sout>>
rvars == <<rpc, rdf, rcap, rout1, rout2>>
vvars == <<vpc, self, df, ret>>

\* ------------------------------------------------------------------ bounds
MaxCoord == 4       \* slices: min and max range over 0..MaxCoord
MaxN == 4           \* slices: N ranges over 0..MaxN
MaxRows == 4        \* reduce: the table has at most MaxRows rows
MaxVoxel == 1       \* reduce: voxel numbers range over 0..MaxVoxel
MaxObs == 2         \* reduce: num_obs ranges over 1..MaxObs
MaxCap == 3         \* reduce: NOBS_MAX ranges over -1..MaxCap
MaxGrid == 2        \* Voxels: x, y boundaries and coordinates range over 0..MaxGrid
MaxDepth == 1       \* Voxels: z boundaries and coordinates range over 0..MaxDepth
MaxEvents == 1      \* Voxels: the event table has at most MaxEvents rows

\* ----------------------------------------------------------------- results
Return(v) == [err |-> "none", val |-> v]
Raise(e) == [err |-> e, val |-> <<>>]
NoResult == [err |-> "not called", val |-> <<>>]

\* ------------------------------------------------------------------ slices
RECURSIVE IsPowerOfTwo(_)
\* d >= 1 is a power of two: a division by d is exact in binary floating point
IsPowerOfTwo(d) ==
    IF d = 1 THEN TRUE
    ELSE IF d % 2 = 1 THEN FALSE
    ELSE IsPowerOfTwo(d \div 2)

\* The representable values the float sum num/den (num >= 0, den >= 1) can
\* round to.  Off a tie: the nearest one.  On a tie with den a power of two
\* the step (max-min)/den and its multiples are exact, so the single rounding
\* of the addition goes to the even neighbour.  On a tie with any other den
\* the step itself was rounded, and either neighbour can come out.
RoundNearest(num, den) ==
    LET q == num \div den
        r == num % den
    IN  IF 2 * r < den THEN {q}
        ELSE IF 2 * r > den THEN {q + 1}
        ELSE IF IsPowerOfTwo(den) THEN {IF q % 2 = 0 THEN q ELSE q + 1}
        ELSE {q, q + 1}

RECURSIVE LinspaceUpTo(_, _, _, _)
\* The arrays y[0..m-1] numpy.linspace can hold before the endpoint is set:
\* y[i] = i * step + start with step = (stop - start) / div.
LinspaceUpTo(start, stop, div, m) ==
    IF m = 0 THEN {<<>>}
    ELSE { Append(y, v) :
             y \in LinspaceUpTo(start, stop, div, m - 1),
             v \in RoundNearest(start * div + (m - 1) * (stop - start), div) }

\* Linspace with endpoint=False: num values spaced (stop - start) / num apart,
\* the last one short of stop.
LinspaceNoEndpoint(start, stop, num) ==
    LinspaceUpTo(start, stop, num, num)

\* numpy.linspace(start, stop, num), num >= 2, start <= stop: num values,
\* the last one set to stop itself (y[-1] = stop).
Linspace(start, stop, num) ==
    { [y EXCEPT ![num] = stop] : y \in LinspaceUpTo(start, stop, num - 1, num) }

\* slices(min, max, N): the results the call can end with
slices(min, max, N) ==
    IF ~(N >= 2)
    THEN {Raise("AssertionError")}
    ELSE {Return(y) : y \in Linspace(min, max, N)}

SlicesInit ==
    /\ spc = "init"
    /\ smin \in 0..MaxCoord
    /\ smax \in smin..MaxCoord
    /\ sN \in 0..MaxN
    /\ sout = NoResult

CallSlices ==
    /\ spc = "init"
    /\ sout' \in slices(smin, smax, sN)
    /\ spc' = "called"
    /\ UNCHANGED <<smin, smax, sN>>

\* ---------------------------------------------- reduce_event_count_per_voxel
\* a sorts strictly before b under sort_values(["voxel", "num_obs"],
\* ascending=False): voxel descending, then num_obs descending
SortsBefore(a, b) ==
    \/ a.voxel > b.voxel
    \/ a.voxel = b.voxel /\ a.num_obs > b.num_obs

\* An unstable placement: the row goes in front of the rows it ties with.
InsertBeforeTies(sorted, row) ==
    LET ahead == {i \in 1..Len(sorted) : SortsBefore(sorted[i], row)}
        k == Cardinality(ahead)
    IN  SubSeq(sorted, 1, k) \o <<row>> \o SubSeq(sorted, k + 1, Len(sorted))

\* The place of a row that came later in the input than every row of the
\* sorted prefix: behind every row that does not sort strictly after it, so
\* equal keys keep their input order (the multi-key sort is a stable lexsort).
Insert(sorted, row) ==
    LET behind == {i \in 1..Len(sorted) : SortsBefore(row, sorted[i])}
        k == Len(sorted) - Cardinality(behind)
    IN  SubSeq(sorted, 1, k) \o <<row>> \o SubSeq(sorted, k + 1, Len(sorted))

RECURSIVE SortValuesAscendingObs(_)
\* sort_values with num_obs ascending inside each voxel
SortValuesAscendingObs(t) ==
    IF t = <<>> THEN <<>>
    ELSE LET s == SortValuesAscendingObs(SubSeq(t, 1, Len(t) - 1))
             row == t[Len(t)]
             ahead == {i \in 1..Len(s) :
                         \/ s[i].voxel > row.voxel
                         \/ s[i].voxel = row.voxel /\ s[i].num_obs <= row.num_obs}
             k == Cardinality(ahead)
         IN  SubSeq(s, 1, k) \o <<row>> \o SubSeq(s, k + 1, Len(s))

RECURSIVE SortValuesAscending(_)
\* a stable sort by voxel, then num_obs, both ascending
SortValuesAscending(t) ==
    IF t = <<>> THEN <<>>
    ELSE LET s == SortValuesAscending(SubSeq(t, 1, Len(t) - 1))
             row == t[Len(t)]
             behind == {i \in 1..Len(s) : SortsBefore(s[i], row)}
             k == Len(s) - Cardinality(behind)
         IN  SubSeq(s, 1, k) \o <<row>> \o SubSeq(s, k + 1, Len(s))

\* a descending sort got by reversing the ascending one: rows that tie come
\* out in reverse input order
SortValuesThenReverse(t) ==
    LET s == SortValuesAscending(t)
    IN  [p \in 1..Len(s) |-> s[Len(s) + 1 - p]]

RECURSIVE SortValues(_)
\* df.sort_values(["voxel", "num_obs"], ascending=False)
SortValues(t) ==
    IF t = <<>> THEN <<>>
    ELSE Insert(SortValues(SubSeq(t, 1, Len(t) - 1)), t[Len(t)])

\* the number of rows of the group of row p that stand before it (cumcount)
CumCount(t, p) == Cardinality({q \in 1..(p - 1) : t[q].voxel = t[p].voxel})

\* the number of rows of the group of row p
GroupSize(t, p) == Cardinality({q \in 1..Len(t) : t[q].voxel = t[p].voxel})

\* the rows of t at the positions in keep, in the order of t
RECURSIVE TakeRows(_, _, _)
TakeRows(t, keep, p) ==
    IF p > Len(t) THEN <<>>
    ELSE (IF p \in keep THEN <<t[p]>> ELSE <<>>) \o TakeRows(t, keep, p + 1)

\* .groupby('voxel').head(n): of each group the first n rows (n >= 0), or all
\* but the last -n rows (n < 0), in the order of t
GroupByHead(t, n) ==
    LET keep == {p \in 1..Len(t) :
                   IF n >= 0 THEN CumCount(t, p) < n
                   ELSE CumCount(t, p) < GroupSize(t, p) + n}
    IN  TakeRows(t, keep, 1)

\* reduce_event_count_per_voxel(df, NOBS_MAX)
reduce_event_count_per_voxel(t, NOBS_MAX) ==
    Return(GroupByHead(SortValues(t), NOBS_MAX))

RowValues == [voxel : 0..MaxVoxel, num_obs : 1..MaxObs]

\* the tables of n rows; the index label of a row is its input position
Tables(n) ==
    { [p \in 1..n |-> [id |-> p, voxel |-> f[p].voxel, num_obs |-> f[p].num_obs]] :
        f \in [1..n -> RowValues] }

ReduceInit ==
    /\ rpc = "init"
    /\ \E n \in 0..MaxRows : rdf \in Tables(n)
    /\ rcap \in (-1)..MaxCap
    /\ rout1 = NoResult
    /\ rout2 = NoResult

Reduce ==
    /\ rpc = "init"
    /\ rout1' = reduce_event_count_per_voxel(rdf, rcap)
    /\ rpc' = "reduced"
    /\ UNCHANGED <<rdf, rcap, rout2>>

\* the caller feeds the reduced table to the reducer again
ReduceAgain ==
    /\ rpc = "reduced"
    /\ rout1.err = "none"
    /\ rout2' = reduce_event_count_per_voxel(rout1.val, rcap)
    /\ rpc' = "reduced_twice"
    /\ UNCHANGED <<rdf, rcap, rout1>>

\* ------------------------------------------------------------------- Voxels
\* getattr(obj, name): the attribute's value, or AttributeError when the
\* object has no attribute of that name
GetAttr(obj, name) ==
    IF name \in DOMAIN obj THEN Return(obj[name]) ELSE Raise("AttributeError")

\* obj with attribute name set to value (obj.name = value)
SetAttr(obj, name, value) ==
    [a \in DOMAIN obj \cup {name} |-> IF a = name THEN value ELSE obj[a]]

\* the attribute combine_slices stores the axis mapping under
AllSlicesAttr == "all_slices"

\* the axis mapping read back under the name combine_slices stored it under
SlicesAttrAsStored == "all_slices"

\* the attribute assign_voxels reads the axis mapping from
SlicesAttr == "slices"

\* Voxels.combine_slices(x, y, z)
combine_slices(obj, x, y, z) ==
    SetAttr(obj, AllSlicesAttr, [X |-> x, Y |-> y, Z |-> z])

\* Voxels(x_slices, y_slices, z_slices): the generated __init__ stores the
\* three fields, then __post_init__ calls combine_slices on them
post_init(x, y, z) ==
    LET fields == [x_slices |-> x, y_slices |-> y, z_slices |-> z]
    IN  combine_slices(fields, fields.x_slices, fields.y_slices, fields.z_slices)

\* len(S[:-1]): the number of loop indexes over the boundaries S
LenButLast(S) == IF Len(S) = 0 THEN 0 ELSE Len(S) - 1

\* for k in range(nK): the (i, j, k) visited, in order
KLoop(i, j, nK) == [k \in 1..nK |-> <<i, j, k - 1>>]

RECURSIVE JLoop(_, _, _, _)
\* for j in range(nJ), from j on
JLoop(i, j, nJ, nK) ==
    IF j >= nJ THEN <<>> ELSE KLoop(i, j, nK) \o JLoop(i, j + 1, nJ, nK)

RECURSIVE ILoop(_, _, _, _)
\* for i in range(nI), from i on
ILoop(i, nI, nJ, nK) ==
    IF i >= nI THEN <<>> ELSE JLoop(i, 0, nJ, nK) \o ILoop(i + 1, nI, nJ, nK)

\* the (i, j, k) of the three nested loops in the order they are visited;
\* count, which starts at 0 and grows by one per visit, is the position - 1
LoopOrder(X, Y, Z) == ILoop(0, LenButLast(X), LenButLast(Y), LenButLast(Z))

\* np.median((a, b)), the rational (a + b) / 2
Median(a, b) == <<a + b, 2>>

\* grab_voxel_info: the row appended to voxel_locs for cell (i, j, k)
grab_voxel_info(X, Y, Z, i, j, k, count) ==
    [Xrange |-> <<X[i + 1], X[i + 2]>>,
     Yrange |-> <<Y[j + 1], Y[j + 2]>>,
     Zrange |-> <<Z[k + 1], Z[k + 2]>>,
     Xmid |-> Median(X[i + 1], X[i + 2]),
     Ymid |-> Median(Y[j + 1], Y[j + 2]),
     Zmid |-> Median(Z[k + 1], Z[k + 2]),
     Vnum |-> count]

\* the mask appended to bounds for cell (i, j, k), at the row e
InBounds(e, X, Y, Z, i, j, k) ==
    /\ e.x > X[i + 1] /\ e.x <= X[i + 2]
    /\ e.y > Y[j + 1] /\ e.y <= Y[j + 2]
    /\ e.z > Z[k + 1] /\ e.z <= Z[k + 2]

\* np.select(bounds, cell) at the row e: the choice of the first condition
\* that holds, and the default 0 when none does
Select(e, X, Y, Z, order) ==
    LET hits == {p \in 1..Len(order) :
                   InBounds(e, X, Y, Z, order[p][1], order[p][2], order[p][3])}
    IN  IF hits = {} THEN 0
        ELSE (CHOOSE p \in hits : \A q \in hits : p <= q) - 1

\* Voxels.assign_voxels(df): the object and the caller's table after the
\* call, and the call's result
assign_voxels(obj, table) ==
    LET copy == table                       \* df.copy(deep=True)
        got == GetAttr(obj, SlicesAttr)     \* self.slices
    IN  IF got.err # "none"
        THEN [self |-> obj, df |-> table, ret |-> Raise(got.err)]
        ELSE
          LET X == got.val.X
              Y == got.val.Y
              Z == got.val.Z
              order == LoopOrder(X, Y, Z)
              voxel_locs ==
                  [p \in 1..Len(order) |->
                      grab_voxel_info(X, Y, Z, order[p][1], order[p][2],
                                      order[p][3], p - 1)]
              stored == SetAttr(obj, "voxels", voxel_locs)
              annotated ==
                  [r \in 1..Len(copy) |->
                      [x |-> copy[r].x, y |-> copy[r].y, z |-> copy[r].z,
                       voxel |-> Select(copy[r], X, Y, Z, order)]]
          IN  IF Len(order) = 0     \* np.select refuses an empty condition list
              THEN [self |-> stored, df |-> table, ret |-> Raise("ValueError")]
              ELSE [self |-> stored, df |-> table, ret |-> Return(annotated)]

RECURSIVE Increasing(_, _)
\* the strictly increasing sequences of at least two values of lo..hi
Increasing(lo, hi) ==
    IF lo > hi THEN {}
    ELSE LET rest == Increasing(lo + 1, hi)
         IN  rest \cup {<<lo>> \o s : s \in rest}
                  \cup {<<lo, b>> : b \in (lo + 1)..hi}

Events == [x : 0..MaxGrid, y : 0..MaxGrid, z : 0..MaxDepth]

VoxelsInit ==
    /\ vpc = "init"
    /\ self = <<>>
    /\ \E n \in 0..MaxEvents : df \in [1..n -> Events]
    /\ ret = NoResult

\* the caller builds the grid from three boundary sequences
Construct ==
    /\ vpc = "init"
    /\ \E x \in Increasing(0, MaxGrid), y \in Increasing(0, MaxGrid),
          z \in Increasing(0, MaxDepth) :
            self' = post_init(x, y, z)
    /\ vpc' = "constructed"
    /\ UNCHANGED <<df, ret>>

\* the caller calls self.assign_voxels(df)
AssignVoxels ==
    /\ vpc = "constructed"
    /\ LET r == assign_voxels(self, df)
       IN  /\ self' = r.self
           /\ df' = r.df
           /\ ret' = r.ret
    /\ vpc' = "assigned"

\* ---------------------------------------------------------- specifications
SlicesIdle ==
    /\ spc = "init" /\ smin = 0 /\ smax = 0 /\ sN = 0 /\ sout = NoResult
ReduceIdle ==
    /\ rpc = "init" /\ rdf = <<>> /\ rcap = 0
    /\ rout1 = NoResult /\ rout2 = NoResult
VoxelsIdle ==
    /\ vpc = "init" /\ self = <<>> /\ df = <<>> /\ ret = NoResult

InitSlices == SlicesInit /\ ReduceIdle /\ VoxelsIdle
NextSlices == CallSlices /\ UNCHANGED <<rvars, vvars>>
SpecSlices == InitSlices /\ [][NextSlices]_vars

InitReduce == SlicesIdle /\ ReduceInit /\ VoxelsIdle
NextReduce ==
    \/ Reduce /\ UNCHANGED <<svars, vvars>>
    \/ ReduceAgain /\ UNCHANGED <<svars, vvars>>
SpecReduce == InitReduce /\ [][NextReduce]_vars

InitVoxels == SlicesIdle /\ ReduceIdle /\ VoxelsInit
NextVoxels ==
    \/ Construct /\ UNCHANGED <<svars, rvars>>
    \/ AssignVoxels /\ UNCHANGED <<svars, rvars>>
SpecVoxels == InitVoxels /\ [][NextVoxels]_vars

\* ------------------------------------------------------------------ helpers
Range(t) == {t[p] : p \in 1..Len(t)}
Min(a, b) == IF a <= b THEN a ELSE b
Abs(a) == IF a >= 0 THEN a ELSE -a
RowsOfVoxel(t, v) == {p \in 1..Len(t) : t[p].voxel = v}

\* ------------------------------------------------------------------- slices
SlicesCase == spc = "called" /\ smin < smax /\ sN >= 2

C4_CapPerVoxel ==
    (rpc # "init" /\ rcap >= 1) =>
        /\ rout1.err = "none"
        /\ Range(rout1.val) \subseteq Range(rdf)
        /\ Cardinality(Range(rout1.val)) = Len(rout1.val)
        /\ \A v \in 0..MaxVoxel :
              Cardinality(RowsOfVoxel(rout1.val, v))
                  = Min(Cardinality(RowsOfVoxel(rdf, v)), rcap)
        /\ \A d \in Range(rdf) \ Range(rout1.val) :
              \A k \in Range(rout1.val) :
                  d.voxel = k.voxel => ~(d.num_obs > k.num_obs)

\* the reducer ran with a cap >= 1 on a table with one voxel over the cap,
\* whose discarded rows are strictly smaller than a retained one, and
\* another voxel under the cap
C4_Witness ==
    /\ rpc = "reduced" /\ rcap >= 1
    /\ \E v, w \in 0..MaxVoxel :
          /\ Cardinality(RowsOfVoxel(rdf, v)) > rcap
          /\ Cardinality(RowsOfVoxel(rdf, w)) \in 1..(rcap - 1)
          /\ Cardinality(RowsOfVoxel(rout1.val, w)) = Cardinality(RowsOfVoxel(rdf, w))
          /\ \E d \in Range(rdf) \ Range(rout1.val), k \in Range(rout1.val) :
                d.voxel = v /\ k.voxel = v /\ d.num_obs < k.num_obs

\* C5: rows of one voxel with equal num_obs come out in their input order,
\* and when the cap cuts through a run of equal num_obs the rows earlier in
\* the input are the retained ones.
C5_TiesInInputOrder ==
    (rpc # "init" /\ rcap >= 1) =>
        /\ \A p, q \in 1..Len(rout1.val) :
              (/\ p < q
               /\ rout1.val[p].voxel = rout1.val[q].voxel
               /\ rout1.val[p].num_obs = rout1.val[q].num_obs)
                  => rout1.val[p].id < rout1.val[q].id
        /\ \A d \in Range(rdf) \ Range(rout1.val) :
              \A k \in Range(rout1.val) :
                  (d.voxel = k.voxel /\ d.num_obs = k.num_obs) => k.id < d.id

\* the cap cut through a run of equal num_obs in one voxel: two rows of the
\* run were retained, in input order, and a later row of it was discarded
C5_Witness ==
    /\ rpc = "reduced" /\ rcap >= 1
    /\ \E p, q \in 1..Len(rout1.val) :
          /\ p < q
          /\ rout1.val[p].voxel = rout1.val[q].voxel
          /\ rout1.val[p].num_obs = rout1.val[q].num_obs
          /\ rout1.val[p].id < rout1.val[q].id
          /\ \E d \in Range(rdf) \ Range(rout1.val) :
                /\ d.voxel = rout1.val[q].voxel
                /\ d.num_obs = rout1.val[q].num_obs
                /\ rout1.val[q].id < d.id

\* C6 as stated: a call with NOBS_MAX < 1 fails with InvalidConfiguration
\* and returns no table.
C6_RejectsCapBelowOne ==
    (rpc # "init" /\ rcap < 1) => rout1.err = "InvalidConfiguration"

\* C9: reducing the reduced table again, with the same cap >= 1, returns the
\* same rows in the same order; and reducing a table in which every voxel
\* has at most cap rows returns the same set of rows.
C9_Idempotent ==
    /\ (rpc = "reduced_twice" /\ rcap >= 1) => rout2 = rout1
    /\ (/\ rpc # "init" /\ rcap >= 1
        /\ \A v \in 0..MaxVoxel : Cardinality(RowsOfVoxel(rdf, v)) <= rcap)
           => Range(rout1.val) = Range(rdf)

\* the reducer ran twice with a cap >= 1, the first run discarded rows and
\* kept two rows that tie
C9_Witness ==
    /\ rpc = "reduced_twice" /\ rcap >= 1
    /\ Len(rout1.val) < Len(rdf)
    /\ Len(rout2.val) >= 2
    /\ \E p, q \in 1..Len(rout1.val) :
          /\ p < q
          /\ rout1.val[p].voxel = rout1.val[q].voxel
          /\ rout1.val[p].num_obs = rout1.val[q].num_obs

\* ------------------------------------------------------------------- Voxels
\* the boundaries construction stored for the grid
GridX == self[AllSlicesAttr].X
GridY == self[AllSlicesAttr].Y
GridZ == self[AllSlicesAttr].Z
GridN == (Len(GridX) - 1) * (Len(GridY) - 1) * (Len(GridZ) - 1)

\* the cells (i, j, k) whose ranges hold the event e
CellsOf(e) ==
    {c \in (0..(Len(GridX) - 2)) \X (0..(Len(GridY) - 2)) \X (0..(Len(GridZ) - 2)) :
        /\ GridX[c[1] + 1] < e.x /\ e.x <= GridX[c[1] + 2]
        /\ GridY[c[2] + 1] < e.y /\ e.y <= GridY[c[2] + 2]
        /\ GridZ[c[3] + 1] < e.z /\ e.z <= GridZ[c[3] + 2]}

\* the number of the cell (i, j, k)
NumberOf(c) ==
    (c[1] * (Len(GridY) - 1) + c[2]) * (Len(GridZ) - 1) + c[3]

InBox(e) ==
    /\ GridX[1] < e.x /\ e.x <= GridX[Len(GridX)]
    /\ GridY[1] < e.y /\ e.y <= GridY[Len(GridY)]
    /\ GridZ[1] < e.z /\ e.z <= GridZ[Len(GridZ)]

\* C1 as stated: after assign_voxels, every event inside the box (above the
\* minimum, up to and on the maximum of each axis) lies in exactly one cell
\* and carries that cell's number as its voxel.
C1_InBoxEventGetsItsCell ==
    vpc = "assigned" =>
        \A r \in 1..Len(df) :
            InBox(df[r]) =>
                /\ Cardinality(CellsOf(df[r])) = 1
                /\ ret.err = "none"
                /\ \A c \in CellsOf(df[r]) : ret.val[r].voxel = NumberOf(c)

\* C2 as stated: after assign_voxels, every event that no cell holds carries
\* voxel 0, and no error was raised.
C2_UnmatchedEventGetsZero ==
    vpc = "assigned" =>
        \A r \in 1..Len(df) :
            CellsOf(df[r]) = {} =>
                /\ ret.err = "none"
                /\ ret.val[r].voxel = 0

\* C3 as stated: the grid assign_voxels enumerates has (nx-1)(ny-1)(nz-1)
\* cells, numbered 0..N-1 in the order i, j, k, the cell (i, j, k) with
\* number (i*(ny-1) + j)*(nz-1) + k and the ranges of its three indexes.
C3_GridEnumerated ==
    vpc = "assigned" =>
        /\ "voxels" \in DOMAIN self
        /\ Len(self["voxels"]) = GridN
        /\ \A p \in 1..GridN : self["voxels"][p].Vnum = p - 1
        /\ \A c \in (0..(Len(GridX) - 2)) \X (0..(Len(GridY) - 2))
                      \X (0..(Len(GridZ) - 2)) :
              LET row == self["voxels"][NumberOf(c) + 1]
              IN  /\ row.Vnum = NumberOf(c)
                  /\ row.Xrange = <<GridX[c[1] + 1], GridX[c[1] + 2]>>
                  /\ row.Yrange = <<GridY[c[2] + 1], GridY[c[2] + 2]>>
                  /\ row.Zrange = <<GridZ[c[3] + 1], GridZ[c[3] + 2]>>

C10_AssignReadsStoredSlices ==
    vpc = "assigned" =>
        /\ ret.err = "none"
        /\ SlicesAttr \in DOMAIN self
        /\ self[SlicesAttr] = self[AllSlicesAttr]

====
